---------------------------- MODULE Spec2Model ----------------------------
(***************************************************************************)
(* A model of src/bot.py (stock-news-bot): the file-backed alert store     *)
(* with its command handlers and the alert cycle, and the news cycle with  *)
(* its seen-links file.                                                    *)
(*                                                                         *)
(* Threads: the three loops are daemon threads (bot.py 531-533); command   *)
(* handlers run on the web server's / telebot's threads.  The only shared  *)
(* state is the JSON files; every load_json / save_json call is one atomic *)
(* step and everything between two such calls is thread-local.             *)
(***************************************************************************)
EXTENDS Integers, Sequences, FiniteSets, TLC

(***************************************************************************)
(* Bounds of the model.                                                    *)
(***************************************************************************)
MaxCmds == 1          \* commands the handlers process beside the alert cycle
MaxCycles == 2        \* iterations of check_alerts_loop beside the handlers
FireOnceCycles == 3   \* iterations of check_alerts_loop running alone
MaxNewsCycles == 2    \* iterations of news_auto_loop in one run
MaxRestarts == 1      \* restarts of the process in one run
MaxRegCmds == 3       \* /start and /stop commands in one run
MaxCloses == 21       \* valid closing prices in a downloaded series
MaxNulls == 2         \* null closing prices in a downloaded series
MaxMoves == 4         \* closes at the end of a series that may differ from the one before
MaxDays == 2          \* days the daily loop runs
LiveCycles == 2       \* iterations of the alert and news loops running together

(***************************************************************************)
(* Values.                                                                 *)
(***************************************************************************)
\* A float that is not a number; every comparison with it is false.
NaN == 9999

ChatIds == {1, 2}

\* str(m.chat.id) (bot.py 375, 400) and int(uid) (bot.py 439).
StrOf(c) == IF c = 1 THEN "1" ELSE "2"
IntOf(u) == IF u = "1" THEN 1 ELSE 2

\* str.upper() on the ticker words a user may type (bot.py 368, 398).
TickerWords == {"a", "B"}
Upper(w) == IF w = "a" THEN "A" ELSE w

\* float(parts[2]) on the price words a user may type (bot.py 369-373):
\* "abc" raises ValueError, the others parse ("nan" parses to NaN).
PriceWords == {"abc", "-1", "0", "2", "nan"}
ParseFloat(w) ==
    CASE w = "-1"  -> [ok |-> TRUE,  val |-> -1]
      [] w = "0"   -> [ok |-> TRUE,  val |-> 0]
      [] w = "2"   -> [ok |-> TRUE,  val |-> 2]
      [] w = "nan" -> [ok |-> TRUE,  val |-> NaN]
      [] OTHER     -> [ok |-> FALSE, val |-> 0]

\* IEEE comparisons as Python's >= and == make them (bot.py 437, 443).
FloatGE(a, b) == a # NaN /\ b # NaN /\ a >= b
FloatEq(a, b) == a # NaN /\ b # NaN /\ a = b

\* The latest closing prices the quote provider may report for a ticker.
Quotes == {1, 2}

\* An empty Python dict / list.
EmptyDict == <<>>

Uids == {StrOf(c) : c \in ChatIds}
Tickers == {Upper(w) : w \in TickerWords}

VARIABLES
    ioFaults,     \* environment: whether file reads and writes may fail
    feedPool,     \* environment: the pages each news source may serve during the run
    errLog,       \* bot.log: the loops whose handler (446, 477, 500) has logged an error
    alertsFile,   \* alerts.json: [exists, valid, data]
    \* check_alerts_loop
    aPc,          \* "load" (414), "check" (418-443), "save" (444)
    alerts,       \* its local dict
    prices,       \* its local dict of quotes
    aLoaded,      \* history: the dict as load_alerts returned it in this iteration
    aSent,        \* history: the notifications attempted in this iteration, per owner
    cyclesLeft,   \* iterations the run may still start
    fired,        \* history: <<owner, alert>> triggered by a cycle that has written back
    removed,      \* history: <<owner, alert>> removed by a cmd_unalert that has written back
    hist,         \* history: per iteration, the quotes fetched and the notifications
    \* the command handler in flight
    hPc,          \* "idle", "alert_save" (376-379), "unalert_save" (404-407)
    hMsg,         \* the message: [chat, parts]
    hAlerts,      \* its local dict
    hReply,       \* the last reply sent: [kind, ticker, price, before, after]
    cmdsLeft,     \* commands the run may still start
    \* news_auto_loop
    seenFile,     \* last_sent.json: [exists, valid, data]
    chatFile,     \* chat_ids.json: [exists, valid, data]
    nPc,          \* "start" (484), "fetch" (487-488), "dispatch" (489-494), "persist" (495-496)
    last_sent,    \* its local set
    items,        \* the batch fetch_combined_news returned last
    new_items,    \* its local list
    nSent,        \* history: the dispatches attempted in this iteration
    newsLeft,     \* iterations the run may still start
    restartsLeft, \* restarts the run may still see
    restarted,    \* history: the process has restarted
    done,         \* history: this iteration reached its end (496 or 498)
    prev,         \* history: the iteration before: [items, new, done]
    durable,      \* history: keys of the batches whose write of last_sent.json succeeded
    feeds,        \* history: what the three sources held in this iteration
    \* cmd_start / cmd_stop on the handler threads
    reg,          \* per thread: [pc, chat, ids], pc "idle", "add_save" (72), "remove_save" (78)
    regLeft,      \* registry commands the run may still start
    \* cmd_signal / cmd_rekomendasi: the last query answered
    qCmd,         \* "none", "signal", "rekomendasi"
    qFrames,      \* history: what the quote provider returned to cmd_signal
    qTa,          \* what analyze_ticker_simple returned, per ticker asked
    qReply,       \* the reply: [kind, lines]
    \* rsi
    rClose,       \* the series of closes rsi is called with
    rRsi,         \* the last value of the series rsi returns: [kind, num, den]
    \* daily_summary_loop
    now,          \* the UTC clock at the loop's next poll, in seconds
    dHour,        \* DAILY_HOUR_WIB (26)
    dOffset,      \* TIMEZONE_OFFSET (27)
    dSent,        \* history: the dispatches attempted for the last digest
    dFires,       \* history: the clock readings at which a digest was run
    dStart,       \* history: the clock at the loop's first poll
    dUntil        \* the clock at which the run ends

envVars == <<ioFaults, feedPool, errLog>>
cycleVars == <<aPc, alerts, prices, aLoaded, aSent, cyclesLeft>>
handlerVars == <<hPc, hMsg, hAlerts, hReply, cmdsLeft>>
newsVars == <<seenFile, chatFile, nPc, last_sent, items, new_items, nSent, newsLeft,
              restartsLeft, restarted, done, prev, durable, feeds>>
newsLoopVars == <<seenFile, nPc, last_sent, items, new_items, nSent, newsLeft,
                  restartsLeft, restarted, done, prev, durable, feeds>>
registryVars == <<reg, regLeft>>
signalVars == <<qCmd, qFrames, qTa, qReply, rClose, rRsi>>
dailyVars == <<now, dHour, dOffset, dSent, dFires, dStart, dUntil>>
restVars == <<registryVars, signalVars, dailyVars>>
otherVars == <<envVars, newsVars, restVars>>
alertsVars == <<alertsFile, cycleVars, fired, removed, hist, handlerVars>>

vars == <<ioFaults, feedPool, errLog, alertsFile,
          aPc, alerts, prices, aLoaded, aSent, cyclesLeft, fired, removed, hist,
          hPc, hMsg, hAlerts, hReply, cmdsLeft,
          seenFile, chatFile, nPc, last_sent, items, new_items, nSent, newsLeft,
          restartsLeft, restarted, done, prev, durable, feeds,
          reg, regLeft, qCmd, qFrames, qTa, qReply, rClose, rRsi,
          now, dHour, dOffset, dSent, dFires, dStart, dUntil>>

(***************************************************************************)
(* Persistence helpers (bot.py 49-63).                                     *)
(***************************************************************************)
NoFile == [exists |-> FALSE, valid |-> FALSE, data |-> EmptyDict]
File(data) == [exists |-> TRUE, valid |-> TRUE, data |-> data]

\* The outcomes of one read and of one write.  A failed write either leaves
\* the file as it was (open failed) or leaves it truncated: open(path, "w")
\* empties the file before json.dump writes.
ReadOutcomes == IF ioFaults THEN {TRUE, FALSE} ELSE {TRUE}
WriteOutcomes == IF ioFaults THEN {"ok", "unchanged", "truncated"} ELSE {"ok"}

\* load_json: the default when the file is absent or reading it raises.
LoadJson(file, default, ok) ==
    IF file.exists /\ file.valid /\ ok THEN file.data ELSE default

\* save_json: the exception of a failed write is logged and swallowed.
SaveJson(file, data, outcome) ==
    CASE outcome = "ok"        -> File(data)
      [] outcome = "truncated" -> [exists |-> TRUE, valid |-> FALSE, data |-> EmptyDict]
      [] OTHER                 -> file

load_alerts(ok) == LoadJson(alertsFile, EmptyDict, ok)
save_alerts(data, outcome) == SaveJson(alertsFile, data, outcome)

(***************************************************************************)
(* The alert store as the properties read it.                              *)
(***************************************************************************)
AlertVals == {ParseFloat(w).val : w \in {x \in PriceWords : ParseFloat(x).ok}}
AlertKinds == [ticker : Tickers, price : AlertVals]

\* The number of alerts equal to a in the list of owner u.
Count(d, u, a) ==
    IF u \in DOMAIN d THEN Cardinality({i \in 1..Len(d[u]) : d[u][i] = a}) ELSE 0

\* The content of alerts.json as a reader that succeeds finds it.
Stored == LoadJson(alertsFile, EmptyDict, TRUE)

\* The alerts among the notifications s.
AlertsSent(s) == {[ticker |-> s[i].ticker, price |-> s[i].target] : i \in 1..Len(s)}

(***************************************************************************)
(* check_alerts_loop (bot.py 410-447).                                     *)
(***************************************************************************)
\* The tickers of all stored alerts (419-422).
TickersOf(d) == UNION {{d[u][i].ticker : i \in 1..Len(d[u])} : u \in DOMAIN d}

\* A comparison that is strict where line 437 is not.
Triggers_Strict(cur, target) == cur # NaN /\ target # NaN /\ cur > target

\* The trigger condition (437).
Triggers(cur, target) == FloatGE(cur, target)

\* A removal by ticker alone where line 443 compares ticker and price.
SameAlert_TickerOnly(x, tk, target) == x.ticker = tk

\* The alerts the list comprehension of line 443 drops.
SameAlert(x, tk, target) == x.ticker = tk /\ FloatEq(x.price, target)

\* The inner loop (430-443) over lst, the list of one owner as it was loaded:
\* kept is alerts[uid], which line 443 rebinds while the loop goes on over
\* lst; sent are the notifications attempted, delivered or not.
\* A loop over the list as the removals leave it, where line 431 loops over
\* the list as it was loaded: an alert already removed is not looked at again.
RECURSIVE CheckList_OverKept(_, _, _, _, _, _)
CheckList_OverKept(lst, i, kept, sent, pr, delivered) ==
    IF i > Len(lst) THEN [alerts |-> kept, sent |-> sent]
    ELSE LET a == lst[i] IN
         IF /\ a.ticker \in DOMAIN pr
            /\ Triggers(pr[a.ticker], a.price)
            /\ \E h \in 1..Len(kept) : kept[h] = a
         THEN CheckList_OverKept(lst, i + 1,
                        SelectSeq(kept, LAMBDA x : ~SameAlert(x, a.ticker, a.price)),
                        Append(sent, [ticker |-> a.ticker, target |-> a.price,
                                      ok |-> delivered]),
                        pr, delivered)
         ELSE CheckList_OverKept(lst, i + 1, kept, sent, pr, delivered)

RECURSIVE CheckList(_, _, _, _, _, _)
CheckList(lst, i, kept, sent, pr, delivered) ==
    IF i > Len(lst) THEN [alerts |-> kept, sent |-> sent]
    ELSE LET a == lst[i] IN
         IF a.ticker \notin DOMAIN pr
         THEN CheckList(lst, i + 1, kept, sent, pr, delivered)
         ELSE IF Triggers(pr[a.ticker], a.price)
         THEN CheckList(lst, i + 1,
                        SelectSeq(kept, LAMBDA x : ~SameAlert(x, a.ticker, a.price)),
                        Append(sent, [ticker |-> a.ticker, target |-> a.price,
                                      ok |-> delivered]),
                        pr, delivered)
         ELSE CheckList(lst, i + 1, kept, sent, pr, delivered)

\* 414-417: load the store; an empty dict sleeps 10 s and starts over.
AlertLoad ==
    /\ aPc = "load"
    /\ cyclesLeft > 0
    /\ cyclesLeft' = cyclesLeft - 1
    /\ \E ok \in ReadOutcomes :
          LET a == load_alerts(ok) IN
          IF DOMAIN a = {}
          THEN UNCHANGED <<aPc, alerts, aLoaded>>
          ELSE /\ aPc' = "check"
               /\ alerts' = a
               /\ aLoaded' = a
    /\ UNCHANGED <<alertsFile, prices, aSent, fired, removed, handlerVars, otherVars>>

\* 418-443: one quote per distinct ticker (analyze_ticker_simple returns None
\* when the provider has nothing), then the check of every alert.  down are
\* the owners bot.send_message fails for in this iteration.
AlertCheck ==
    /\ aPc = "check"
    /\ \E avail \in SUBSET TickersOf(alerts) :
       \E pr \in [avail -> Quotes] :
       \E down \in SUBSET (DOMAIN alerts) :
          LET res == [u \in DOMAIN alerts |->
                        CheckList(alerts[u], 1, alerts[u], <<>>, pr, u \notin down)]
          IN /\ prices' = pr
             /\ alerts' = [u \in DOMAIN alerts |-> res[u].alerts]
             /\ aSent' = [u \in DOMAIN alerts |-> res[u].sent]
    /\ aPc' = "save"
    /\ UNCHANGED <<alertsFile, aLoaded, cyclesLeft, fired, removed, handlerVars, otherVars>>

\* 444, 447: write the dict back and sleep.
AlertSave ==
    /\ aPc = "save"
    /\ \E w \in WriteOutcomes : alertsFile' = save_alerts(alerts, w)
    /\ fired' = fired \cup UNION {{<<u, a>> : a \in AlertsSent(aSent[u])} : u \in DOMAIN aSent}
    /\ aPc' = "load"
    /\ alerts' = EmptyDict
    /\ prices' = EmptyDict
    /\ aLoaded' = EmptyDict
    /\ aSent' = EmptyDict
    /\ UNCHANGED <<cyclesLeft, removed, handlerVars, otherVars>>

(***************************************************************************)
(* cmd_alert and cmd_unalert (bot.py 362-379, 392-407).                    *)
(***************************************************************************)
\* m.text.split() of the messages a user may send.
AlertTexts ==
    {<<"/alert">>} \cup {<<"/alert", t>> : t \in TickerWords}
        \cup {<<"/alert", t, w>> : t \in TickerWords, w \in PriceWords}
UnalertTexts == {<<"/unalert">>} \cup {<<"/unalert", t>> : t \in TickerWords}

NoMsg == [chat |-> 0, parts |-> <<>>]
Reply(kind, ticker, price, before, after) ==
    [kind |-> kind, ticker |-> ticker, price |-> price, before |-> before, after |-> after]
NoReply == Reply("none", "", 0, 0, 0)

\* dict.setdefault(key, default) (376).
SetDefault(d, k, default) ==
    IF k \in DOMAIN d THEN d
    ELSE [x \in DOMAIN d \cup {k} |-> IF x = k THEN default ELSE d[x]]

\* The alert cmd_alert appends (368, 370, 377).
AlertOf(parts) == [ticker |-> Upper(parts[2]), price |-> ParseFloat(parts[3]).val]

\* What cmd_alert requires of the price word (369-373): that float() takes it.
PriceAccepted(w) == ParseFloat(w).ok

\* A filter that keeps the ticker where line 405 drops it.
WithoutTicker_Inverted(lst, ticker) == SelectSeq(lst, LAMBDA a : a.ticker = ticker)

\* The list comprehension of line 405.
WithoutTicker(lst, ticker) == SelectSeq(lst, LAMBDA a : a.ticker # ticker)

\* 363-374: split and parse, reply to a malformed message, else load.
CmdAlertBegin ==
    /\ hPc = "idle"
    /\ cmdsLeft > 0
    /\ cmdsLeft' = cmdsLeft - 1
    /\ \E c \in ChatIds, parts \in AlertTexts :
          IF Len(parts) < 3
          THEN /\ hReply' = Reply("usage", "", 0, 0, 0)
               /\ UNCHANGED <<hPc, hMsg, hAlerts>>
          ELSE IF ~PriceAccepted(parts[3])
          THEN /\ hReply' = Reply("format", "", 0, 0, 0)
               /\ UNCHANGED <<hPc, hMsg, hAlerts>>
          ELSE \E ok \in ReadOutcomes :
                 /\ hAlerts' = load_alerts(ok)
                 /\ hMsg' = [chat |-> c, parts |-> parts]
                 /\ hPc' = "alert_save"
                 /\ UNCHANGED hReply
    /\ UNCHANGED <<alertsFile, cycleVars, fired, removed, otherVars>>

\* 375-379: append to the owner's list, save, reply.
CmdAlertSave ==
    /\ hPc = "alert_save"
    /\ LET uid == StrOf(hMsg.chat)
           a == AlertOf(hMsg.parts)
           d == SetDefault(hAlerts, uid, <<>>)
       IN /\ \E w \in WriteOutcomes :
                alertsFile' = save_alerts([d EXCEPT ![uid] = Append(@, a)], w)
          /\ hReply' = Reply("alert_set", a.ticker, a.price, 0, 0)
          /\ fired' = fired \ {<<uid, a>>}
          /\ removed' = removed \ {<<uid, a>>}
    /\ hPc' = "idle"
    /\ hMsg' = NoMsg
    /\ hAlerts' = EmptyDict
    /\ UNCHANGED <<cycleVars, cmdsLeft, otherVars>>

\* 393-403: split, load, reply when the owner has no list.
CmdUnalertBegin ==
    /\ hPc = "idle"
    /\ cmdsLeft > 0
    /\ cmdsLeft' = cmdsLeft - 1
    /\ \E c \in ChatIds, parts \in UnalertTexts :
          IF Len(parts) < 2
          THEN /\ hReply' = Reply("usage", "", 0, 0, 0)
               /\ UNCHANGED <<hPc, hMsg, hAlerts>>
          ELSE \E ok \in ReadOutcomes :
                 LET d == load_alerts(ok) IN
                 IF StrOf(c) \notin DOMAIN d
                 THEN /\ hReply' = Reply("no_alerts", "", 0, 0, 0)
                      /\ UNCHANGED <<hPc, hMsg, hAlerts>>
                 ELSE /\ hAlerts' = d
                      /\ hMsg' = [chat |-> c, parts |-> parts]
                      /\ hPc' = "unalert_save"
                      /\ UNCHANGED hReply
    /\ UNCHANGED <<alertsFile, cycleVars, fired, removed, otherVars>>

\* 404-407: drop the owner's alerts for the ticker, save, reply the two sizes.
CmdUnalertSave ==
    /\ hPc = "unalert_save"
    /\ LET uid == StrOf(hMsg.chat)
           ticker == Upper(hMsg.parts[2])
           before == Len(hAlerts[uid])
           d == [hAlerts EXCEPT ![uid] = WithoutTicker(@, ticker)]
       IN /\ \E w \in WriteOutcomes : alertsFile' = save_alerts(d, w)
          /\ hReply' = Reply("updated", ticker, 0, before, Len(d[uid]))
          /\ removed' = removed \cup
                {<<uid, a>> : a \in {x \in AlertKinds :
                                        Count(hAlerts, uid, x) > Count(d, uid, x)}}
    /\ hPc' = "idle"
    /\ hMsg' = NoMsg
    /\ hAlerts' = EmptyDict
    /\ UNCHANGED <<cycleVars, fired, cmdsLeft, otherVars>>

(***************************************************************************)
(* Spec: the alert store with its handlers and its cycle, the files        *)
(* reading and writing without failure.                                    *)
(***************************************************************************)
\* alerts.json as an earlier run may have left it: absent, one alert, or the
\* alerts of two owners.
OneAlertFiles ==
    {File([x \in {u} |-> <<[ticker |-> t, price |-> 2]>>]) : u \in Uids, t \in Tickers}
TwoOwnerFile ==
    File([u \in Uids |->
            IF u = "1"
            THEN <<[ticker |-> "A", price |-> 2], [ticker |-> "B", price |-> 2],
                   [ticker |-> "A", price |-> 2]>>
            ELSE <<[ticker |-> "A", price |-> 2]>>])
InitAlertFiles == {NoFile, TwoOwnerFile} \cup OneAlertFiles

InitAlerts ==
    /\ aPc = "load"
    /\ alerts = EmptyDict
    /\ prices = EmptyDict
    /\ aLoaded = EmptyDict
    /\ aSent = EmptyDict
    /\ fired = {}
    /\ removed = {}
    /\ hist = <<>>
    /\ hPc = "idle"
    /\ hMsg = NoMsg
    /\ hAlerts = EmptyDict
    /\ hReply = NoReply

\* No news source serves anything.
NoPool == [idx |-> {<<>>}, cnbc |-> {<<>>}, inv |-> {<<>>}]

\* The news loop at its start.
NoPrev == [items |-> <<>>, new |-> <<>>, done |-> FALSE]
NoFeeds == [idx |-> <<>>, cnbc |-> <<>>, inv |-> <<>>]

NewsLoopStart ==
    /\ nPc = "start"
    /\ last_sent = {}
    /\ items = <<>>
    /\ new_items = <<>>
    /\ nSent = <<>>
    /\ restarted = FALSE
    /\ done = FALSE
    /\ prev = NoPrev
    /\ durable = {}
    /\ feeds = NoFeeds

\* The threads that run command handlers.
Slots == {1, 2}
IdleSlot == [pc |-> "idle", chat |-> 0, ids |-> <<>>]

\* No registry command in flight and none to come.
RegistryIdle ==
    /\ reg = [s \in Slots |-> IdleSlot]
    /\ regLeft = 0

\* No query answered yet.
SignalIdle ==
    /\ qCmd = "none"
    /\ qFrames = <<>>
    /\ qTa = <<>>
    /\ qReply = [kind |-> "none", lines |-> <<>>]
    /\ rClose = <<>>
    /\ rRsi = [kind |-> "none", num |-> 0, den |-> 1]

\* The daily loop with no time to run in.
DailyIdle ==
    /\ now = 0
    /\ dHour = 8
    /\ dOffset = 7
    /\ dSent = <<>>
    /\ dFires = {}
    /\ dStart = 0
    /\ dUntil = 0

\* What runs beside the alert store and the news loop, at rest.
RestIdle == RegistryIdle /\ SignalIdle /\ DailyIdle

\* The news loop at its start, with nothing left to run.
NewsIdle ==
    /\ seenFile = NoFile
    /\ chatFile = NoFile
    /\ newsLeft = 0
    /\ restartsLeft = 0
    /\ NewsLoopStart

Init ==
    /\ ioFaults = FALSE
    /\ feedPool = NoPool
    /\ errLog = {}
    /\ alertsFile \in InitAlertFiles
    /\ cyclesLeft = MaxCycles
    /\ cmdsLeft = MaxCmds
    /\ InitAlerts
    /\ NewsIdle
    /\ RestIdle

CycleLoad == AlertLoad /\ UNCHANGED hist
CycleCheck == AlertCheck /\ UNCHANGED hist
CycleSave == AlertSave /\ UNCHANGED hist
SetAlertBegin == CmdAlertBegin /\ UNCHANGED hist
SetAlertSave == CmdAlertSave /\ UNCHANGED hist
UnalertBegin == CmdUnalertBegin /\ UNCHANGED hist
UnalertSave == CmdUnalertSave /\ UNCHANGED hist

Next ==
    \/ CycleLoad
    \/ CycleCheck
    \/ CycleSave
    \/ SetAlertBegin
    \/ SetAlertSave
    \/ UnalertBegin
    \/ UnalertSave

Spec == Init /\ [][Next]_vars

(***************************************************************************)
(* SpecFireOnce: the alert cycle alone on a store of one alert, with the   *)
(* history of its iterations.                                              *)
(***************************************************************************)
SkippedCycle ==
    [evaluated |-> FALSE, loaded |-> EmptyDict, prices |-> EmptyDict, sent |-> EmptyDict]

InitFireOnce ==
    /\ ioFaults = FALSE
    /\ feedPool = NoPool
    /\ errLog = {}
    /\ alertsFile \in OneAlertFiles
    /\ cyclesLeft = FireOnceCycles
    /\ cmdsLeft = 0
    /\ InitAlerts
    /\ NewsIdle
    /\ RestIdle

ObservedLoad ==
    /\ AlertLoad
    /\ hist' = IF aPc' = "load" THEN Append(hist, SkippedCycle) ELSE hist

ObservedCheck ==
    /\ AlertCheck
    /\ hist' = Append(hist, [evaluated |-> TRUE, loaded |-> aLoaded,
                             prices |-> prices', sent |-> aSent'])

ObservedSave == AlertSave /\ UNCHANGED hist

NextFireOnce ==
    \/ ObservedLoad
    \/ ObservedCheck
    \/ ObservedSave

SpecFireOnce == InitFireOnce /\ [][NextFireOnce]_vars

(***************************************************************************)
(* News sources and fetch_combined_news (bot.py 176-258).                  *)
(***************************************************************************)
NewsLimit == 5

Item(title, link, code, source) ==
    [title |-> title, link |-> link, code |-> code, source |-> source]

\* A page of IDX announcements as long as the limit allows (183).
IdxPage ==
    <<Item("t1", "L1", "BBCA", "IDX"), Item("t6", "L6", "", "IDX"),
      Item("t7", "L7", "", "IDX"), Item("t8", "L8", "", "IDX"),
      Item("t9", "L9", "", "IDX")>>

\* What the sources may return.  An IDX announcement without a filePath has
\* an empty link (189); a CNBC anchor always has one (211-213), and two
\* anchors of the page may lead to the same article.
IdxFeeds ==
    {<<>>,
     <<Item("t1", "L1", "BBCA", "IDX")>>,
     <<Item("t2", "", "BBRI", "IDX")>>,
     <<Item("t1", "L1", "BBCA", "IDX"), Item("t2", "", "BBRI", "IDX")>>,
     IdxPage}
CnbcFeeds ==
    {<<>>,
     <<Item("t3", "L3", "", "CNBC")>>,
     <<Item("t4", "L1", "", "CNBC"), Item("t3", "L3", "", "CNBC")>>,
     <<Item("t3", "L3", "", "CNBC"), Item("t3b", "L3", "", "CNBC")>>}
InvestingFeeds ==
    {<<>>, <<Item("t5", "L5", "", "Investing")>>}
AllFeeds == [idx |-> IdxFeeds, cnbc |-> CnbcFeeds, inv |-> InvestingFeeds]

\* IDX alone serves a page, of one item or none.
IdxOnly ==
    [idx |-> {<<>>, <<Item("t1", "L1", "BBCA", "IDX")>>}, cnbc |-> {<<>>}, inv |-> {<<>>}]

\* The dedup key of fetch_combined_news (254): n.get("link") or n.get("title").
DedupKey(n) == IF n.link # "" THEN n.link ELSE n.title

\* A loop that keeps every item where lines 255-257 keep the first of a key.
Dedupe_KeepAll(news, i, seen, dedup) == news

\* The dedupe loop (251-257): the first item of each non-empty key.
RECURSIVE Dedupe(_, _, _, _)
Dedupe(news, i, seen, dedup) ==
    IF i > Len(news) THEN dedup
    ELSE LET k == DedupKey(news[i]) IN
         IF k # "" /\ k \notin seen
         THEN Dedupe(news, i + 1, seen \cup {k}, Append(dedup, news[i]))
         ELSE Dedupe(news, i + 1, seen, dedup)

\* list[:n].
Take(lst, n) == SubSeq(lst, 1, IF Len(lst) < n THEN Len(lst) ELSE n)

\* fetch_combined_news(limit) without a sector (240-258): Investing is asked
\* only when IDX and CNBC returned nothing.
FetchCombined(idx, cnbc, inv, limit) ==
    LET first == Take(idx, limit) \o Take(cnbc, limit)
        news == IF first = <<>> THEN Take(inv, limit) ELSE first
    IN Take(Dedupe(news, 1, {}, <<>>), limit)

(***************************************************************************)
(* news_auto_loop (bot.py 482-501) and update_last_sent (87-93).           *)
(***************************************************************************)
\* The filter of line 488.
NewItems(batch, seen) == SelectSeq(batch, LAMBDA it : it.link # "" /\ it.link \notin seen)

\* The links handed to update_last_sent and to last_sent.update (495, 496).
LinksOf(lst) == {lst[i].link : i \in {j \in 1..Len(lst) : lst[j].link # ""}}

\* load_last_sent (87-88).
load_last_sent(ok) == LoadJson(seenFile, {}, ok)

\* update_last_sent (90-93): read the file, add the links, write the file.
update_last_sent(links, ok, outcome) ==
    SaveJson(seenFile, load_last_sent(ok) \cup links, outcome)

\* The keys of last_sent.json as a reader that succeeds finds them.
SeenKeys(file) == LoadJson(file, {}, TRUE)

\* The dispatches of the loop of lines 492-494, in its order.
RECURSIVE Dispatches(_, _, _, _)
Dispatches(ids, lst, c, i) ==
    IF c > Len(ids) THEN <<>>
    ELSE IF i > Len(lst) THEN Dispatches(ids, lst, c + 1, 1)
    ELSE <<[cid |-> ids[c], link |-> lst[i].link, ok |-> TRUE]>>
             \o Dispatches(ids, lst, c, i + 1)

\* 484: the set is read once, when the loop starts.
NewsStart ==
    /\ nPc = "start"
    /\ \E ok \in ReadOutcomes : last_sent' = load_last_sent(ok)
    /\ nPc' = "fetch"
    /\ UNCHANGED <<seenFile, chatFile, items, new_items, nSent, newsLeft, restartsLeft,
                   restarted, done, prev, durable>>
    /\ UNCHANGED feeds
    /\ UNCHANGED <<envVars, alertsVars, restVars>>

\* 487-488, 497-501: fetch and filter; without new items the iteration ends.
NewsFetch ==
    /\ nPc = "fetch"
    /\ newsLeft > 0
    /\ newsLeft' = newsLeft - 1
    /\ \E idx \in feedPool.idx, cnbc \in feedPool.cnbc, inv \in feedPool.inv :
          LET batch == FetchCombined(idx, cnbc, inv, NewsLimit)
              new == NewItems(batch, last_sent)
          IN /\ items' = batch
             /\ new_items' = new
             /\ nPc' = IF new = <<>> THEN "fetch" ELSE "dispatch"
             /\ done' = (new = <<>>)
             /\ feeds' = [idx |-> idx, cnbc |-> cnbc, inv |-> inv]
    /\ prev' = [items |-> items, new |-> new_items, done |-> done]
    /\ nSent' = <<>>
    /\ UNCHANGED <<seenFile, chatFile, last_sent, restartsLeft, restarted, durable>>
    /\ UNCHANGED <<envVars, alertsVars, restVars>>

\* 491-494: every new item to every subscriber.  send_news_item (266-281)
\* catches nothing: the first failing send ends the iteration in the handler
\* of line 499, before lines 495-496.  n is the number of sends that succeed.
NewsDispatch ==
    /\ nPc = "dispatch"
    /\ \E ok \in ReadOutcomes :
          LET ids == LoadJson(chatFile, <<>>, ok)
              all == Dispatches(ids, new_items, 1, 1)
          IN \E n \in 0..Len(all) :
                IF n = Len(all)
                THEN /\ nSent' = all
                     /\ nPc' = "persist"
                     /\ UNCHANGED errLog
                ELSE /\ nSent' = [i \in 1..(n + 1) |-> [all[i] EXCEPT !.ok = (i <= n)]]
                     /\ nPc' = "fetch"
                     /\ errLog' = errLog \cup {"news_auto_loop"}
    /\ UNCHANGED <<seenFile, chatFile, last_sent, items, new_items, newsLeft, restartsLeft,
                   restarted, done, prev, durable>>
    /\ UNCHANGED feeds
    /\ UNCHANGED <<ioFaults, feedPool, alertsVars, restVars>>

\* 495-496: the links of the batch go to the file and to the in-memory set.
\* Neither call can raise: load_json and save_json catch everything.
NewsPersist ==
    /\ nPc = "persist"
    /\ \E ok \in ReadOutcomes, w \in WriteOutcomes :
          /\ seenFile' = update_last_sent(LinksOf(new_items), ok, w)
          /\ durable' = IF w = "ok" THEN durable \cup LinksOf(new_items) ELSE durable
    /\ last_sent' = last_sent \cup LinksOf(new_items)
    /\ done' = TRUE
    /\ nPc' = "fetch"
    /\ UNCHANGED <<chatFile, items, new_items, nSent, newsLeft, restartsLeft, restarted, prev>>
    /\ UNCHANGED feeds
    /\ UNCHANGED <<envVars, alertsVars, restVars>>

\* The process is stopped and started again (531-533 start the loops anew):
\* what was in memory is gone, the files stay.
Restart ==
    /\ restartsLeft > 0
    /\ restartsLeft' = restartsLeft - 1
    /\ restarted' = TRUE
    /\ nPc' = "start"
    /\ last_sent' = {}
    /\ items' = <<>>
    /\ new_items' = <<>>
    /\ nSent' = <<>>
    /\ done' = FALSE
    /\ prev' = NoPrev
    /\ feeds' = NoFeeds
    /\ UNCHANGED <<seenFile, chatFile, newsLeft, durable>>
    /\ UNCHANGED <<envVars, alertsVars, restVars>>

InitSeenFiles == {NoFile, File({"L1"})}
InitChatFiles == {NoFile, File(<<1>>), File(<<1, 2>>)}

\* The alert side at rest: no alerts stored, no command pending.
AlertsIdle ==
    /\ alertsFile = NoFile
    /\ cyclesLeft = 0
    /\ cmdsLeft = 0
    /\ InitAlerts

InitNewsFiles ==
    /\ seenFile \in InitSeenFiles
    /\ chatFile \in InitChatFiles
    /\ newsLeft = MaxNewsCycles
    /\ restartsLeft = MaxRestarts
    /\ NewsLoopStart
    /\ AlertsIdle
    /\ RestIdle

NextNews ==
    \/ NewsStart
    \/ NewsFetch
    \/ NewsDispatch
    \/ NewsPersist
    \/ Restart

\* The news loop with file reads and writes that succeed.
InitNews == ioFaults = FALSE /\ feedPool = AllFeeds /\ errLog = {} /\ InitNewsFiles
SpecNews == InitNews /\ [][NextNews]_vars

\* The news loop with file reads and writes that may fail.
InitNewsIO == ioFaults = TRUE /\ feedPool = AllFeeds /\ errLog = {} /\ InitNewsFiles
SpecNewsIO == InitNewsIO /\ [][NextNews]_vars

(***************************************************************************)
(* The subscriber registry: cmd_start / save_chat_id and cmd_stop /        *)
(* remove_chat_id (bot.py 65-79, 284-292), on two handler threads.         *)
(***************************************************************************)
load_chat_ids(ok) == LoadJson(chatFile, <<>>, ok)

\* chat_id in ids (70).
InList(c, ids) == \E i \in 1..Len(ids) : ids[i] = c

\* The list comprehension of line 77.
WithoutChat(ids, c) == SelectSeq(ids, LAMBDA i : StrOf(i) # StrOf(c) /\ i # c)

\* The identifiers chat_ids.json holds, as a reader that succeeds finds them.
StoredIds == LoadJson(chatFile, <<>>, TRUE)
IdSet(ids) == {ids[i] : i \in 1..Len(ids)}

\* cmd_start, 69-71: read the list; an id that is in it is not added again.
StartBegin(s) ==
    /\ reg[s].pc = "idle"
    /\ regLeft > 0
    /\ regLeft' = regLeft - 1
    /\ \E c \in ChatIds, ok \in ReadOutcomes :
          LET ids == load_chat_ids(ok) IN
          reg' = [reg EXCEPT ![s] =
                    IF InList(c, ids)
                    THEN [pc |-> "idle", chat |-> c, ids |-> ids]
                    ELSE [pc |-> "add_save", chat |-> c, ids |-> Append(ids, c)]]
    /\ UNCHANGED <<chatFile, newsLoopVars, envVars, alertsVars, signalVars, dailyVars>>

\* cmd_start, 72: write the list with the id appended.
StartSave(s) ==
    /\ reg[s].pc = "add_save"
    /\ \E w \in WriteOutcomes : chatFile' = SaveJson(chatFile, reg[s].ids, w)
    /\ reg' = [reg EXCEPT ![s].pc = "idle"]
    /\ UNCHANGED <<regLeft, newsLoopVars, envVars, alertsVars, signalVars, dailyVars>>

\* cmd_stop, 76-77: read the list and drop the id.
StopBegin(s) ==
    /\ reg[s].pc = "idle"
    /\ regLeft > 0
    /\ regLeft' = regLeft - 1
    /\ \E c \in ChatIds, ok \in ReadOutcomes :
          reg' = [reg EXCEPT ![s] =
                    [pc |-> "remove_save", chat |-> c,
                     ids |-> WithoutChat(load_chat_ids(ok), c)]]
    /\ UNCHANGED <<chatFile, newsLoopVars, envVars, alertsVars, signalVars, dailyVars>>

\* cmd_stop, 78: write the list, whether or not it changed.
StopSave(s) ==
    /\ reg[s].pc = "remove_save"
    /\ \E w \in WriteOutcomes : chatFile' = SaveJson(chatFile, reg[s].ids, w)
    /\ reg' = [reg EXCEPT ![s].pc = "idle"]
    /\ UNCHANGED <<regLeft, newsLoopVars, envVars, alertsVars, signalVars, dailyVars>>

CmdStartBegin == \E s \in Slots : StartBegin(s)
CmdStartSave == \E s \in Slots : StartSave(s)
CmdStopBegin == \E s \in Slots : StopBegin(s)
CmdStopSave == \E s \in Slots : StopSave(s)

InitRegistry ==
    /\ ioFaults = FALSE
    /\ feedPool = NoPool
    /\ errLog = {}
    /\ chatFile \in InitChatFiles
    /\ seenFile = NoFile
    /\ newsLeft = 0
    /\ restartsLeft = 0
    /\ NewsLoopStart
    /\ AlertsIdle
    /\ reg = [s \in Slots |-> IdleSlot]
    /\ regLeft = MaxRegCmds
    /\ SignalIdle
    /\ DailyIdle

NextRegistry ==
    \/ CmdStartBegin
    \/ CmdStartSave
    \/ CmdStopBegin
    \/ CmdStopSave

SpecRegistry == InitRegistry /\ [][NextRegistry]_vars

(***************************************************************************)
(* analyze_ticker_simple, cmd_signal and cmd_rekomendasi (bot.py 116-149,  *)
(* 322-333, 347-359).                                                      *)
(***************************************************************************)
MinCloses == 20
RsiBuyBelow == 70

\* IEEE comparisons as Python's > and < make them (355).
FloatGT(a, b) == a # NaN /\ b # NaN /\ a > b
FloatLT(a, b) == a # NaN /\ b # NaN /\ a < b

\* A column of n closing prices with m nulls (NaN) before and after them.
Closes(n, m) ==
    [i \in 1..(n + m) |->
        IF i <= (m + 1) \div 2 \/ i > (m + 1) \div 2 + n THEN NaN ELSE 1 + (i % 2)]

\* What yf.download may do (120-125): raise, return None, return a frame
\* without a Close column, or return a frame (an empty one when close = <<>>).
Download(kind, close) == [kind |-> kind, close |-> close]
Downloads ==
    {Download(k, <<>>) : k \in {"raise", "none", "nocolumn"}}
       \cup {Download("frame", Closes(n, m)) : n \in 0..MaxCloses, m \in 0..MaxNulls}

\* What the pandas computations of 131-136 may give for the last bar.  The
\* RSI is NaN when both averages are 0 (105-106).
Indicators ==
    [ema20 : {1, 2}, ema50 : {1, 2}, rsi14 : {65, 66, 70, NaN},
     macd : {0, 1}, macd_signal : {0, 1}]

\* Series.dropna() (127).
DropNa(close) == SelectSeq(close, LAMBDA x : x # NaN)

\* A comparison that turns away exactly 20 closes where line 128 accepts them.
TooFewCloses_Inclusive(close) == Len(close) <= MinCloses

\* len(close) < 20 (128).
TooFewCloses(close) == Len(close) < MinCloses

\* The value None, in the shape of a snapshot.
NoSnapshot ==
    [defined |-> FALSE, symbol |-> "", price |-> 0, ema20 |-> 0, ema50 |-> 0,
     rsi14 |-> 0, macd |-> 0, macd_signal |-> 0]

\* analyze_ticker_simple (116-149) on the upper-cased ticker t.
analyze_ticker_simple(t, d, ind) ==
    IF d.kind # "frame" \/ d.close = <<>> THEN NoSnapshot
    ELSE LET close == DropNa(d.close) IN
         IF TooFewCloses(close) THEN NoSnapshot
         ELSE [defined |-> TRUE, symbol |-> t, price |-> close[Len(close)],
               ema20 |-> ind.ema20, ema50 |-> ind.ema50, rsi14 |-> ind.rsi14,
               macd |-> ind.macd, macd_signal |-> ind.macd_signal]

\* The rule of line 355.
Signal(ta) ==
    IF FloatGT(ta.ema20, ta.ema50) /\ FloatLT(ta.rsi14, RsiBuyBelow) THEN "BUY" ELSE "HOLD"

\* DEFAULT_TICKERS (34), stripped.
DefaultTickers == <<"A", "B">>

SignalTexts == {<<"/signal">>} \cup {<<"/signal", w>> : w \in TickerWords}

\* cmd_signal (322-333).  A query reads and writes no state of the program,
\* so a run answers one.
CmdSignal ==
    /\ qCmd = "none"
    /\ \E parts \in SignalTexts :
          IF Len(parts) < 2
          THEN /\ qFrames' = <<>>
               /\ qTa' = <<>>
               /\ qReply' = [kind |-> "usage", lines |-> <<>>]
          ELSE \E d \in Downloads, ind \in Indicators :
                  LET ta == analyze_ticker_simple(Upper(parts[2]), d, ind) IN
                  /\ qFrames' = <<d>>
                  /\ qTa' = <<ta>>
                  /\ qReply' = [kind |-> IF ta.defined THEN "snapshot" ELSE "unavailable",
                                lines |-> <<>>]
    /\ qCmd' = "signal"
    /\ UNCHANGED <<rClose, rRsi>>
    /\ UNCHANGED <<envVars, alertsVars, newsVars, registryVars, dailyVars>>

\* The downloads cmd_rekomendasi is given here: a failure, a series one
\* close short, and a series just long enough.
RekoDownloads ==
    {Download("raise", <<>>), Download("frame", Closes(MinCloses - 1, 0)),
     Download("frame", Closes(MinCloses, 0))}

\* cmd_rekomendasi (347-359): one line per default ticker.
CmdRekomendasi ==
    /\ qCmd = "none"
    /\ \E d \in [1..Len(DefaultTickers) -> RekoDownloads],
          ind \in [1..Len(DefaultTickers) -> Indicators] :
          LET ta == [i \in 1..Len(DefaultTickers) |->
                        analyze_ticker_simple(DefaultTickers[i], d[i], ind[i])]
          IN /\ qTa' = ta
             /\ qReply' = [kind |-> "rekomendasi",
                           lines |-> [i \in 1..Len(DefaultTickers) |->
                                         IF ta[i].defined THEN Signal(ta[i]) ELSE "none"]]
    /\ qFrames' = <<>>
    /\ qCmd' = "rekomendasi"
    /\ UNCHANGED <<rClose, rRsi>>
    /\ UNCHANGED <<envVars, alertsVars, newsVars, registryVars, dailyVars>>

InitSignal ==
    /\ ioFaults = FALSE
    /\ feedPool = NoPool
    /\ errLog = {}
    /\ NewsIdle
    /\ AlertsIdle
    /\ RegistryIdle
    /\ SignalIdle
    /\ DailyIdle

NextSignal ==
    \/ CmdSignal
    \/ CmdRekomendasi

SpecSignal == InitSignal /\ [][NextSignal]_vars

(***************************************************************************)
(* rsi (bot.py 99-106).  A float is [kind, num, den]: "nan", "inf", or the *)
(* number num / den.                                                       *)
(***************************************************************************)
RsiPeriod == 14

Num(n, d) == [kind |-> "num", num |-> n, den |-> d]
NotANumber == [kind |-> "nan", num |-> 0, den |-> 1]
Infinity == [kind |-> "inf", num |-> 0, den |-> 1]
NotComputed == [kind |-> "none", num |-> 0, den |-> 1]

RECURSIVE Gcd(_, _)
Gcd(a, b) == IF b = 0 THEN a ELSE Gcd(b, a % b)

\* series.diff() (100): the first element has no predecessor.
Diff(series) ==
    [i \in 1..Len(series) |-> IF i = 1 THEN NaN ELSE series[i] - series[i - 1]]

\* delta.clip(lower=0) and -1 * delta.clip(upper=0) (101-102); NaN stays.
ClipUp(x) == IF x = NaN THEN NaN ELSE IF x > 0 THEN x ELSE 0
ClipDown(x) == IF x = NaN THEN NaN ELSE IF x < 0 THEN 0 - x ELSE 0

\* The two ewm(alpha=1/period, min_periods=period).mean() of 103-104 at the
\* last bar, side by side.  With adjust=True the mean is
\* sum (1-alpha)^i x[t-i] / sum (1-alpha)^i over the observations met; the
\* divisor is the same for both and cancels at 105, so the two weighted sums
\* are kept, as up / q and down / q, reduced by their common factor.  A NaN
\* is no observation; fewer than period observations give NaN.
RECURSIVE EwmSums(_, _, _, _, _, _, _)
EwmSums(delta, period, i, up, down, q, cnt) ==
    IF i > Len(delta)
    THEN [defined |-> cnt >= period, up |-> up, down |-> down]
    ELSE IF delta[i] = NaN
    THEN EwmSums(delta, period, i + 1, up, down, q, cnt)
    ELSE LET q2 == IF cnt = 0 THEN 1 ELSE period * q
             u2 == q2 * ClipUp(delta[i]) + (period - 1) * up
             d2 == q2 * ClipDown(delta[i]) + (period - 1) * down
             g == Gcd(Gcd(u2, d2), q2)
         IN EwmSums(delta, period, i + 1, u2 \div g, d2 \div g, q2 \div g, cnt + 1)

\* ma_up / ma_down (105) in IEEE arithmetic: x / 0 is inf, 0 / 0 is NaN.
FloatDiv(ma) ==
    IF ~ma.defined THEN NotANumber
    ELSE IF ma.down = 0 THEN (IF ma.up = 0 THEN NotANumber ELSE Infinity)
    ELSE Num(ma.up, ma.down)

\* 100 - (100 / (1 + rs)) (106): NaN stays NaN, 100 / inf is 0.
RsiOf(rs) ==
    IF rs.kind = "nan" THEN NotANumber
    ELSE IF rs.kind = "inf" THEN Num(100, 1)
    ELSE Num(100 * rs.num, rs.num + rs.den)

\* rsi(series, period).iloc[-1] (99-106, 133).
rsi(series, period) == RsiOf(FloatDiv(EwmSums(Diff(series), period, 1, 0, 0, 1, 0)))

\* A series of n closes: flat at 5, then moving by moves over its last closes.
RECURSIVE Walk(_, _, _)
Walk(start, moves, i) ==
    IF i > Len(moves) THEN <<>>
    ELSE <<start + moves[i]>> \o Walk(start + moves[i], moves, i + 1)
Series(n, moves) == [i \in 1..(n - Len(moves)) |-> 5] \o Walk(5, moves, 1)

\* The lengths: one short of the warm-up, just past it, and what
\* analyze_ticker_simple lets through (128).
RsiLengths == {RsiPeriod, RsiPeriod + 1, MinCloses, MinCloses + 1}
RsiInputs == {Series(n, m) : n \in RsiLengths, m \in [1..MaxMoves -> {-1, 0, 1}]}

\* 133: rsi14 = rsi(close, 14).iloc[-1].
ComputeRsi ==
    /\ rRsi = NotComputed
    /\ rClose # <<>>
    /\ rRsi' = rsi(rClose, RsiPeriod)
    /\ UNCHANGED <<rClose, qCmd, qFrames, qTa, qReply>>
    /\ UNCHANGED <<envVars, alertsVars, newsVars, registryVars, dailyVars>>

InitRsi ==
    /\ ioFaults = FALSE
    /\ feedPool = NoPool
    /\ errLog = {}
    /\ NewsIdle
    /\ AlertsIdle
    /\ RegistryIdle
    /\ DailyIdle
    /\ qCmd = "none"
    /\ qFrames = <<>>
    /\ qTa = <<>>
    /\ qReply = [kind |-> "none", lines |-> <<>>]
    /\ rClose \in RsiInputs
    /\ rRsi = NotComputed

NextRsi == ComputeRsi

SpecRsi == InitRsi /\ [][NextRsi]_vars

(***************************************************************************)
(* daily_summary_loop (bot.py 449-480).                                    *)
(***************************************************************************)
SecondsPerDay == 86400
PollSleep == 20
DigestSleep == 61

\* datetime.utcnow().hour and .minute of a clock in seconds (454-455).
HourOf(t) == (t \div 3600) % 24
MinuteOf(t) == (t \div 60) % 60

\* target_utc_hour (452).
TargetUtcHour(hour, offset) == (hour - offset) % 24

\* A test of the hour alone where line 455 tests hour and minute.
IsDigestTime_AnyMinute(t, target) == HourOf(t) = target

\* The test of line 455.
IsDigestTime(t, target) == HourOf(t) = target /\ MinuteOf(t) = 0

\* The seconds the body of 456-477 may take.
DigestDurations == {0, 45}

\* 469-473: the digest to every subscriber; down are those the send fails for.
DigestSends(ids, down) == [i \in 1..Len(ids) |-> [cid |-> ids[i], ok |-> ids[i] \notin down]]

\* One iteration of the loop (454-480): read the clock; at the target hour
\* and minute 0 run the digest and sleep 61 s; sleep 20 s.
DailyPoll ==
    /\ now < dUntil
    /\ IF IsDigestTime(now, TargetUtcHour(dHour, dOffset))
       THEN /\ dFires' = dFires \cup {now}
            /\ \E ok \in ReadOutcomes, down \in SUBSET ChatIds :
                  dSent' = DigestSends(load_chat_ids(ok), down)
            /\ \E d \in DigestDurations : now' = now + d + DigestSleep + PollSleep
       ELSE /\ now' = now + PollSleep
            /\ UNCHANGED <<dFires, dSent>>
    /\ UNCHANGED <<dHour, dOffset, dStart, dUntil>>
    /\ UNCHANGED <<envVars, alertsVars, newsVars, registryVars, signalVars>>

\* The configurations: every local hour with the offset of WIB, and one
\* local hour with a negative and a zero offset.
DailyConfigs == ((0..23) \X {7}) \cup ({8} \X {-5, 0})

\* The clock when the loop starts: at a minute's start or within a minute.
DailyStarts == {0, 13}

InitDaily ==
    /\ ioFaults = FALSE
    /\ feedPool = NoPool
    /\ errLog = {}
    /\ \E c \in DailyConfigs : dHour = c[1] /\ dOffset = c[2]
    /\ now \in DailyStarts
    /\ dStart = now
    /\ dUntil = MaxDays * SecondsPerDay
    /\ dSent = <<>>
    /\ dFires = {}
    /\ NewsLoopStart
    /\ seenFile = NoFile
    /\ chatFile \in {NoFile, File(<<1, 2>>)}
    /\ newsLeft = 0
    /\ restartsLeft = 0
    /\ AlertsIdle
    /\ RegistryIdle
    /\ SignalIdle

\* 476-479: the body raises before any send (at 458-468); the handler logs,
\* and the loop sleeps as after a digest.
DailyRaise ==
    /\ now < dUntil
    /\ IsDigestTime(now, TargetUtcHour(dHour, dOffset))
    /\ dFires' = dFires \cup {now}
    /\ dSent' = <<>>
    /\ errLog' = errLog \cup {"daily_summary"}
    /\ \E d \in DigestDurations : now' = now + d + DigestSleep + PollSleep
    /\ UNCHANGED <<dHour, dOffset, dStart, dUntil>>
    /\ UNCHANGED <<ioFaults, feedPool, alertsVars, newsVars, registryVars, signalVars>>

NextDaily ==
    \/ DailyPoll
    \/ DailyRaise

SpecDaily == InitDaily /\ [][NextDaily]_vars

(***************************************************************************)
(* The three loops on their threads (bot.py 531-533), with the handlers    *)
(* of 445-446 and 499-500 for a failure of the whole body.                 *)
(***************************************************************************)
\* A handler after which the thread ends.
AlertResume_Exit == "exit"

\* Where check_alerts_loop goes on after the handler of 445-446: the sleep
\* of 447 and the next pass of the while of 412.
AlertResume == "load"

\* 445-447: the body raises at 418-443 before any send; nothing is saved.
AlertRaise ==
    /\ aPc = "check"
    /\ aPc' = AlertResume
    /\ alerts' = EmptyDict
    /\ prices' = EmptyDict
    /\ aLoaded' = EmptyDict
    /\ aSent' = EmptyDict
    /\ errLog' = errLog \cup {"check_alerts_loop"}
    /\ UNCHANGED <<alertsFile, cyclesLeft, fired, removed, hist, handlerVars>>
    /\ UNCHANGED <<ioFaults, feedPool, newsVars, restVars>>

\* 499-501: the body raises at 487-488; the iteration ends in the handler.
NewsRaise ==
    /\ nPc = "fetch"
    /\ newsLeft > 0
    /\ newsLeft' = newsLeft - 1
    /\ prev' = [items |-> items, new |-> new_items, done |-> done]
    /\ done' = FALSE
    /\ nSent' = <<>>
    /\ feeds' = NoFeeds
    /\ errLog' = errLog \cup {"news_auto_loop"}
    /\ UNCHANGED <<seenFile, chatFile, nPc, last_sent, items, new_items, restartsLeft,
                   restarted, durable>>
    /\ UNCHANGED <<ioFaults, feedPool, alertsVars, restVars>>

\* The daily loop starts one poll before the target minute and runs until
\* the minute has passed.
InitLive ==
    /\ ioFaults = TRUE
    /\ feedPool = IdxOnly
    /\ errLog = {}
    /\ alertsFile = File([x \in {"1"} |-> <<[ticker |-> "A", price |-> 2]>>])
    /\ cyclesLeft = LiveCycles
    /\ cmdsLeft = 0
    /\ InitAlerts
    /\ seenFile = NoFile
    /\ chatFile = File(<<1>>)
    /\ newsLeft = LiveCycles
    /\ restartsLeft = 0
    /\ NewsLoopStart
    /\ RegistryIdle
    /\ SignalIdle
    /\ dHour = 8
    /\ dOffset = 7
    /\ now = TargetUtcHour(dHour, dOffset) * 3600 - PollSleep
    /\ dStart = now
    /\ dUntil = now + PollSleep + 60
    /\ dSent = <<>>
    /\ dFires = {}

\* The steps of each thread.
AlertLoop == CycleLoad \/ CycleCheck \/ CycleSave \/ AlertRaise
NewsLoop == NewsStart \/ NewsFetch \/ NewsDispatch \/ NewsPersist \/ NewsRaise
DailyLoop == DailyPoll \/ DailyRaise

NextLive ==
    \/ CycleLoad
    \/ CycleCheck
    \/ CycleSave
    \/ AlertRaise
    \/ NewsStart
    \/ NewsFetch
    \/ NewsDispatch
    \/ NewsPersist
    \/ NewsRaise
    \/ DailyPoll
    \/ DailyRaise

\* Each loop is a thread of its own and every sleep is finite: a thread
\* that can take a step takes one.
SpecLive ==
    /\ InitLive
    /\ [][NextLive]_vars
    /\ WF_vars(AlertLoop)
    /\ WF_vars(NewsLoop)
    /\ WF_vars(DailyLoop)

(***************************************************************************)
(* Properties of the alert store.                                          *)
(***************************************************************************)
\* The notifications of iteration k for the alert a of owner u.
NotificationsIn(k, u, a) ==
    IF u \in DOMAIN hist[k].sent
    THEN Cardinality({i \in 1..Len(hist[k].sent[u]) :
                         /\ hist[k].sent[u][i].ticker = a.ticker
                         /\ hist[k].sent[u][i].target = a.price})
    ELSE 0

\* All notifications of iteration k, to whomever.
AllNotificationsIn(k) ==
    UNION {{<<u, i>> : i \in 1..Len(hist[k].sent[u])} : u \in DOMAIN hist[k].sent}

\* The store of iteration 1 holds the one alert a of owner u, whose quote is
\* below the target in iteration 1 and at or above it in iteration 2.
FireOnceCase(u, a) ==
    /\ Len(hist) >= 2
    /\ hist[1].evaluated
    /\ hist[1].loaded = [x \in {u} |-> <<a>>]
    /\ a.ticker \in DOMAIN hist[1].prices
    /\ hist[1].prices[a.ticker] < a.price
    /\ hist[2].evaluated
    /\ a.ticker \in DOMAIN hist[2].prices
    /\ hist[2].prices[a.ticker] >= a.price

\* C1 (fire-once): with one stored alert whose quote is below the target in
\* cycle 1 and at or above it in cycle 2, exactly one notification is ever
\* dispatched, in cycle 2, and from the end of cycle 2 on (when cycle 3
\* begins and in every later cycle, whatever the quotes) the alert is not in
\* the persisted store.
C1_FireOnce ==
    \A u \in Uids, a \in AlertKinds :
        FireOnceCase(u, a) =>
            /\ \A k \in 1..Len(hist) :
                  /\ NotificationsIn(k, u, a) = (IF k = 2 THEN 1 ELSE 0)
                  /\ Cardinality(AllNotificationsIn(k)) = (IF k = 2 THEN 1 ELSE 0)
            /\ ~(Len(hist) = 2 /\ aPc = "save") => Count(Stored, u, a) = 0

\* A third cycle has run after the alert fired in the second: it read the
\* store, found no alert to quote, and notified nobody.
C1_Witness ==
    \E u \in Uids, a \in AlertKinds :
        /\ FireOnceCase(u, a)
        /\ Len(hist) = 3
        /\ hist[3].evaluated
        /\ NotificationsIn(2, u, a) = 1
        /\ aPc = "load"

\* The steps that write alerts.json.
CycleSaveStep == aPc = "save" /\ aPc' = "load"
AlertSaveStep == hPc = "alert_save" /\ hPc' = "idle"
UnalertSaveStep == hPc = "unalert_save" /\ hPc' = "idle"

\* C2: an alert leaves the persisted store only when the cycle that writes
\* has triggered it or when a cmd_unalert of its owner for its ticker writes,
\* whatever the interleaving of the handlers with the alert cycle.
C2_LeavesOnlyFiredOrRemoved ==
    [][\A u \in Uids, a \in AlertKinds :
          Count(Stored', u, a) < Count(Stored, u, a) =>
              \/ /\ CycleSaveStep
                 /\ u \in DOMAIN aSent
                 /\ a \in AlertsSent(aSent[u])
              \/ /\ UnalertSaveStep
                 /\ u = StrOf(hMsg.chat)
                 /\ a.ticker = Upper(hMsg.parts[2])]_vars

\* C3: an alert that has triggered (its cycle has written back) or that
\* cmd_unalert has removed is not in the persisted store again unless a
\* cmd_alert sets it anew, and no cycle notifies of an alert that has
\* triggered before, whatever the interleaving.
C3_NoRearmNoDoubleFire ==
    [][/\ \A p \in fired' \cup removed' : Count(Stored', p[1], p[2]) = 0
       /\ (aPc = "check" /\ aPc' = "save") =>
              \A u \in DOMAIN aSent' : \A a \in AlertsSent(aSent'[u]) : <<u, a>> \notin fired]_vars

\* The quote of the alert's ticker is available and at or above its target.
Reached(pr, a) == a.ticker \in DOMAIN pr /\ a.price # NaN /\ pr[a.ticker] >= a.price

\* C4: the store a cycle writes is the store it loaded without the alerts
\* whose quote is available and at or above the target: the other alerts
\* (quote unavailable, or below the target) are in it as they were, in
\* order and multiplicity, for the next cycle to evaluate; the notifications
\* of the cycle are those of the alerts it removes, one per alert.
C4_CycleFrame ==
    [][CycleSaveStep =>
          /\ DOMAIN Stored' = DOMAIN aLoaded
          /\ \A u \in DOMAIN aLoaded :
                /\ Stored'[u] = SelectSeq(aLoaded[u], LAMBDA a : ~Reached(prices, a))
                /\ LET hit == SelectSeq(aLoaded[u], LAMBDA a : Reached(prices, a))
                   IN /\ Len(aSent[u]) = Len(hit)
                      /\ \A i \in 1..Len(hit) :
                            /\ aSent[u][i].ticker = hit[i].ticker
                            /\ aSent[u][i].target = hit[i].price]_vars

\* A cycle has evaluated a store with alerts for two tickers, one of them
\* without a quote: it has triggered some alerts and kept others.
C4_Witness ==
    /\ aPc = "save"
    /\ \E u \in DOMAIN aLoaded :
          /\ aSent[u] # <<>>
          /\ alerts[u] # <<>>
          /\ \E i \in 1..Len(alerts[u]) : alerts[u][i].ticker \notin DOMAIN prices

\* C5: cmd_unalert writes the store it read with every alert of the owner for
\* the ticker removed, the owner's alerts for other tickers and the alerts of
\* other owners as they were, and the two sizes it reports differ by the
\* number of alerts removed; when the owner has no list it writes nothing.
C5_UnalertFrame ==
    [][/\ UnalertSaveStep =>
             LET u == StrOf(hMsg.chat)
                 t == Upper(hMsg.parts[2])
             IN /\ DOMAIN Stored' = DOMAIN hAlerts
                /\ \A w \in DOMAIN hAlerts \ {u} : Stored'[w] = hAlerts[w]
                /\ \A a \in AlertKinds :
                      Count(Stored', u, a) = (IF a.ticker = t THEN 0 ELSE Count(hAlerts, u, a))
                /\ Stored'[u] = SelectSeq(hAlerts[u], LAMBDA a : a.ticker # t)
                /\ hReply'.kind = "updated"
                /\ hReply'.before = Len(hAlerts[u])
                /\ hReply'.before - hReply'.after =
                      Cardinality({i \in 1..Len(hAlerts[u]) : hAlerts[u][i].ticker = t})
       /\ (cmdsLeft' < cmdsLeft /\ hPc' = "idle") => Stored' = Stored]_vars

\* cmd_unalert has removed two of the three alerts of owner "1" and left the
\* other ticker and the other owner alone.
C5_Witness ==
    /\ hReply.kind = "updated"
    /\ hReply.before = 3
    /\ hReply.after = 1
    /\ Count(Stored, "1", [ticker |-> "B", price |-> 2]) = 1
    /\ Count(Stored, "2", [ticker |-> "A", price |-> 2]) = 1

FinitePositive(v) == v # NaN /\ v > 0

\* C6: cmd_alert appends only a finite positive target: a request with a
\* zero, negative or non-finite target is answered with an error and the
\* store stays without such an alert.
C6_OnlyFinitePositiveTargets ==
    /\ \A u \in DOMAIN Stored : \A i \in 1..Len(Stored[u]) : FinitePositive(Stored[u][i].price)
    /\ hPc = "alert_save" => FinitePositive(AlertOf(hMsg.parts).price)
    /\ hReply.kind = "alert_set" => FinitePositive(hReply.price)

(***************************************************************************)
(* Properties of the news loop.                                            *)
(***************************************************************************)
\* A step of lines 487-488.
NewsFetchStep == newsLeft' < newsLeft

\* A step of lines 491-494.
NewsDispatchStep == nPc = "dispatch" /\ nPc' # "start"

\* An item whose dedup key the set does not hold.
Unseen(it, seen) == DedupKey(it) \notin seen

\* C7: deduplicator idempotence.  The filter of a news cycle yields the items
\* of the batch whose dedup key is not in the SeenSet, in the order of the
\* batch; and when the cycle before ran to its end on the same batch, the
\* filter yields nothing and the cycle dispatches nothing.
C7_DedupIdempotent ==
    [][NewsFetchStep =>
          /\ new_items' = SelectSeq(items', LAMBDA it : Unseen(it, last_sent))
          /\ (done /\ items' = items) => (new_items' = <<>> /\ nPc' = "fetch")]_vars

\* C8: an item with an empty link has its title as dedup key: when the title
\* is not in the SeenSet the news cycle treats the item as new.
C8_TitleIsKeyWithoutLink ==
    [][NewsFetchStep =>
          \A i \in 1..Len(items') :
             (items'[i].link = "" /\ items'[i].title \notin last_sent)
                => \E j \in 1..Len(new_items') : new_items'[j] = items'[i]]_vars

\* C9: the persisted SeenSet only grows: a key that a successful write put
\* into last_sent.json is in the file after every later write that leaves a
\* readable file, also when reads or writes of the file fail.
C9_SeenSetOnlyGrows ==
    (seenFile.exists /\ seenFile.valid) => durable \subseteq seenFile.data

\* C10: idempotent delivery across restart: after a restart no news cycle
\* dispatches an item whose key a successful write had put into the SeenSet.
C10_NoRedeliveryAfterRestart ==
    [][(restarted /\ NewsDispatchStep) =>
          \A i \in 1..Len(nSent') : nSent'[i].link \notin durable]_vars

\* The list fetch_combined_news dedupes (line 251): IDX then CNBC, Investing
\* when both are empty.
CandidateBatch(f) == IF f.idx \o f.cnbc = <<>> THEN f.inv ELSE f.idx \o f.cnbc

\* What all three sources hold.
AllCandidates(f) == f.idx \o f.cnbc \o f.inv

\* A news iteration that found new items ends (496 or the handler of 499).
NewsIterationEnds == nPc \in {"dispatch", "persist"} /\ nPc' = "fetch"

\* C11: in each news cycle every candidate of every source whose dedup key is
\* not in the SeenSet is among the new items of that cycle, and every new item
\* is dispatched to every registry member in that cycle.
C11_EveryUnseenCandidateDispatched ==
    [][/\ NewsFetchStep =>
             \A i \in 1..Len(AllCandidates(feeds')) :
                Unseen(AllCandidates(feeds')[i], last_sent)
                   => \E j \in 1..Len(new_items') :
                         DedupKey(new_items'[j]) = DedupKey(AllCandidates(feeds')[i])
       /\ NewsDispatchStep =>
             \A c \in 1..Len(StoredIds), j \in 1..Len(new_items) :
                \E k \in 1..Len(nSent') :
                   /\ nSent'[k].cid = StoredIds[c]
                   /\ nSent'[k].link = new_items[j].link
                   /\ nSent'[k].ok]_vars

\* C12: failure isolation in the news cycle: whatever dispatch fails, the
\* cycle attempts the dispatch of every (item, recipient) pair of the batch.
C12_DispatchFailureIsolated ==
    [][NewsDispatchStep =>
          \A c \in 1..Len(StoredIds), j \in 1..Len(new_items) :
             \E k \in 1..Len(nSent') :
                nSent'[k].cid = StoredIds[c] /\ nSent'[k].link = new_items[j].link]_vars

\* C18: when a news cycle that found new items ends, the keys of its batch
\* are in the persisted SeenSet, whether its dispatches succeeded or failed.
C18_PersistedWhateverDispatchDid ==
    [][NewsIterationEnds => LinksOf(new_items) \subseteq SeenKeys(seenFile')]_vars

\* The places of the batch that hold the first item of a non-empty key.
FirstPlaces(batch) ==
    {i \in 1..Len(batch) :
        /\ DedupKey(batch[i]) # ""
        /\ \A h \in 1..(i - 1) : DedupKey(batch[h]) # DedupKey(batch[i])}

\* The j-th smallest of a set of places.
NthPlace(places, j) == CHOOSE i \in places : Cardinality({h \in places : h <= i}) = j

\* C19: within one candidate batch the first item of each dedup key wins and
\* later items with that key are dropped, in first-seen order: the deduped
\* batch is the items at the first places of the keys, in the batch's order,
\* as many as the limit allows, and no two of its items share a key.
C19_FirstOccurrenceWins ==
    [][NewsFetchStep =>
          LET batch == CandidateBatch(feeds')
              places == FirstPlaces(batch)
          IN /\ Len(items') = (IF Cardinality(places) < NewsLimit
                               THEN Cardinality(places) ELSE NewsLimit)
             /\ \A j \in 1..Len(items') : items'[j] = batch[NthPlace(places, j)]
             /\ \A j, k \in 1..Len(items') :
                   j # k => DedupKey(items'[j]) # DedupKey(items'[k])]_vars

\* A batch held two items with one link and different titles; the earlier one
\* was kept, the later one dropped, and each recipient got the link once.
C19_Witness ==
    /\ nPc = "persist"
    /\ nSent # <<>>
    /\ \E i, j \in 1..Len(CandidateBatch(feeds)) :
          LET batch == CandidateBatch(feeds) IN
          /\ i < j
          /\ batch[i].link = batch[j].link
          /\ batch[i].title # batch[j].title
          /\ \E k \in 1..Len(new_items) : new_items[k] = batch[i]
          /\ \A k \in 1..Len(items) : items[k] # batch[j]
          /\ \A c \in ChatIds :
                Cardinality({k \in 1..Len(nSent) :
                                nSent[k].cid = c /\ nSent[k].link = batch[i].link}) <= 1

(***************************************************************************)
(* Properties of the subscriber registry.                                  *)
(***************************************************************************)
NoDuplicates(ids) == \A i, j \in 1..Len(ids) : i # j => ids[i] # ids[j]

\* The steps in which thread s writes chat_ids.json.
AddWrites(s) == reg[s].pc = "add_save" /\ reg'[s].pc = "idle"
RemoveWrites(s) == reg[s].pc = "remove_save" /\ reg'[s].pc = "idle"

\* C17: under every interleaving of /start and /stop the persisted
\* subscriber list holds each identifier at most once, an Add of an id that
\* is in the store leaves the stored set unchanged, and so does a Remove of
\* an id that is not in it.
C17_RegistryUniqueAndIdempotent ==
    [][/\ NoDuplicates(StoredIds')
       /\ \A s \in Slots :
             /\ (AddWrites(s) /\ reg[s].chat \in IdSet(StoredIds))
                   => IdSet(StoredIds') = IdSet(StoredIds)
             /\ (RemoveWrites(s) /\ reg[s].chat \notin IdSet(StoredIds))
                   => IdSet(StoredIds') = IdSet(StoredIds)]_vars

(***************************************************************************)
(* Identical alerts in the alert cycle.                                    *)
(***************************************************************************)
\* The dispatch attempts of a cycle for the alert a among the attempts s.
Attempts(s, a) ==
    Cardinality({i \in 1..Len(s) : s[i].ticker = a.ticker /\ s[i].target = a.price})

\* A step of lines 429-443.
CycleCheckStep == aPc = "check" /\ aPc' = "save"

\* C20: when an owner holds k >= 1 identical alerts and the quote reaches
\* their target, the cycle attempts exactly k trigger dispatches to that owner,
\* succeeding or failing, and none of the k alerts is in the dict the cycle
\* goes on to write.
C20_OneDispatchPerFiredAlert ==
    [][CycleCheckStep =>
          \A u \in DOMAIN aLoaded, a \in AlertKinds :
             (Count(aLoaded, u, a) >= 1 /\ Reached(prices', a))
                => /\ Attempts(aSent'[u], a) = Count(aLoaded, u, a)
                   /\ Count(alerts', u, a) = 0]_vars

\* An owner held two identical alerts, the quote reached the target, both
\* dispatch attempts failed, and both alerts are gone.
C20_Witness ==
    /\ aPc = "save"
    /\ \E u \in DOMAIN aLoaded, a \in AlertKinds :
          /\ Count(aLoaded, u, a) = 2
          /\ Reached(prices, a)
          /\ Attempts(aSent[u], a) = 2
          /\ \A i \in 1..Len(aSent[u]) : ~aSent[u][i].ok
          /\ Count(alerts, u, a) = 0

(***************************************************************************)
(* Properties of the analysis and the classifier.                          *)
(***************************************************************************)
\* The ordered rule of the specification, first match wins.
RuleSignal(ta) ==
    IF /\ FloatGT(ta.ema20, ta.ema50)
       /\ FloatGT(ta.macd, ta.macd_signal)
       /\ FloatLT(ta.rsi14, 70)
    THEN "BUY"
    ELSE IF /\ FloatLT(ta.ema20, ta.ema50)
            /\ FloatLT(ta.macd, ta.macd_signal)
            /\ FloatGT(ta.rsi14, 65)
    THEN "SELL"
    ELSE "HOLD"

\* C15: for every combination of indicator values the signal the program
\* reports is the result of the ordered rule: BUY when ema20 > ema50 and
\* macd > signal and rsi14 < 70, otherwise SELL when ema20 < ema50 and
\* macd < signal and rsi14 > 65, otherwise HOLD.
C15_SignalFollowsRule ==
    qCmd = "rekomendasi" =>
       \A i \in 1..Len(qTa) :
          qTa[i].defined => qReply.lines[i] = RuleSignal(qTa[i])

\* The number of non-null closing prices of a download.
ValidCloses(d) ==
    IF d.kind = "frame" THEN Cardinality({i \in 1..Len(d.close) : d.close[i] # NaN}) ELSE 0

\* C16: the analysis of a series with fewer than 20 non-null closing prices
\* yields no snapshot and the query is answered "data unavailable"; a series
\* with 20 or more yields a snapshot, whose price is the last non-null close.
C16_InsufficientDataBoundary ==
    (qCmd = "signal" /\ qFrames # <<>>) =>
       LET d == qFrames[1] IN
       /\ ValidCloses(d) < 20 => (~qTa[1].defined /\ qReply.kind = "unavailable")
       /\ ValidCloses(d) >= 20 =>
             /\ qTa[1].defined
             /\ qReply.kind = "snapshot"
             /\ \E i \in 1..Len(d.close) :
                   /\ qTa[1].price = d.close[i]
                   /\ d.close[i] # NaN
                   /\ \A h \in (i + 1)..Len(d.close) : d.close[h] = NaN

\* A series of exactly 20 non-null closes among nulls was analysed and the
\* query got its snapshot.
C16_Witness ==
    /\ qCmd = "signal"
    /\ qFrames # <<>>
    /\ ValidCloses(qFrames[1]) = 20
    /\ Len(qFrames[1].close) > 20
    /\ qTa[1].defined
    /\ qReply.kind = "snapshot"


(***************************************************************************)
(* Properties of the daily digest.                                         *)
(***************************************************************************)
\* The first second of the target minute of day k.
TargetMinute(k) == k * SecondsPerDay + ((dHour - dOffset) % 24) * 3600

\* C13: the digest runs only in the minute whose UTC hour is (local hour -
\* offset) mod 24 and whose minute is 0, never twice on one day, and on every
\* day whose target minute the loop has polled through it has run once.
C13_DigestOncePerDay ==
    /\ \A t \in dFires : \E k \in 0..MaxDays :
          t >= TargetMinute(k) /\ t < TargetMinute(k) + 60
    /\ \A t1, t2 \in dFires :
          t1 # t2 => (t1 \div SecondsPerDay) # (t2 \div SecondsPerDay)
    /\ \A k \in 0..MaxDays :
          (dStart < TargetMinute(k) + 60 /\ now >= TargetMinute(k) + 60)
             => \E t \in dFires : t >= TargetMinute(k) /\ t < TargetMinute(k) + 60

\* Two days' digests have run, the second sent to two subscribers, with a
\* local hour before the offset, so that the target hour wraps round midnight.
C13_Witness ==
    /\ dHour < dOffset
    /\ Cardinality(dFires) = 2
    /\ Len(dSent) = 2

(***************************************************************************)
(* Properties of the three loops together.                                 *)
(***************************************************************************)
\* Every loop has started all the iterations the run allows it.
LoopsRanOut ==
    /\ cyclesLeft = 0 /\ aPc = "load"
    /\ newsLeft = 0 /\ nPc = "fetch"
    /\ now >= dUntil

\* C14: once the handler of any loop has caught a failure, that loop and
\* the two others still go on to start every iteration left to them.
C14_NoFailureEndsALoop == (errLog # {}) ~> LoopsRanOut

\* All three handlers have caught a failure and all three loops have run
\* their iterations out.
C14_Witness ==
    /\ errLog = {"check_alerts_loop", "news_auto_loop", "daily_summary"}
    /\ LoopsRanOut

(***************************************************************************)
(* Properties of the RSI.                                                  *)
(***************************************************************************)
\* The smoothed average loss of the series at its last bar is 0.
AvgLossZero(series) == EwmSums(Diff(series), RsiPeriod, 1, 0, 0, 1, 0).down = 0

\* C21: past the warm-up of 14 periods the RSI is a number in 0..100, and it
\* is 100 whenever the smoothed average loss is 0, a constant series
\* included.
C21_RsiDefinedAndBounded ==
    (rRsi # NotComputed /\ Len(rClose) > RsiPeriod)
       => /\ rRsi.kind = "num"
          /\ rRsi.num >= 0
          /\ rRsi.num <= 100 * rRsi.den
          /\ AvgLossZero(rClose) => rRsi.num = 100 * rRsi.den

=============================================================================
